---- MODULE Spec2Model ----
(***************************************************************************)
(* vim-reviewer: offline drafting of a pull-request review.                *)
(*                                                                         *)
(* The model covers the review state library (offline_pr_review.py:        *)
(* Comment, Review, serialization, the range query, the review files) and  *)
(* the editor session controller (rplugin/python3/vim-reviewer.py: the     *)
(* TestPlugin commands), together with the editor host the controller      *)
(* talks to: its buffers, the focused buffer, the BufWritePre hooks, the   *)
(* placed signs, the message area, and the remote API answering a POST.    *)
(*                                                                         *)
(* Python objects are references: a Comment lives in `heap` under an       *)
(* object id, Review.comments is a list of ids, and in_progress_comment    *)
(* is an id, so that the aliasing the controller creates (EditComment      *)
(* hands out the very object that sits in the list) is kept.               *)
(*                                                                         *)
(* Optional values: None is the empty tuple and a present value x is the   *)
(* 1-tuple <<x>>.                                                          *)
(*                                                                         *)
(* Three specifications share the definitions:                             *)
(*   Spec            every command of the plugin, the user working in one  *)
(*                   scratch buffer at a time;                             *)
(*   SpecOverlapping the commands on comments, the user leaving up to      *)
(*                   MaxScratch scratch buffers open;                      *)
(*   SpecPure        the library functions applied to bounded Reviews.     *)
(***************************************************************************)
EXTENDS Integers, Sequences, FiniteSets, TLC

\* ------------------------------------------------------------------ bounds

\* Lines of a file buffer are 1..MaxLine.
MaxLine == 2
\* The model stops appending to a Review that holds MaxComments comments.
MaxComments == 2
\* Scratch buffers (splits on temporary files) open at the same time.
MaxScratch == 2
\* Length of the comment lists of the pure-function specification.
PureMaxLen == 2

\* ------------------------------------------------------------ basic values

None == <<>>
Some(x) == <<x>>

Max(a, b) == IF a >= b THEN a ELSE b

\* Text a user types into a scratch buffer: the '\n'-join of its lines.
Texts == {"", "x"}

\* StartReview's argument as the host passes it: a string.
PRs == {"1"}

Sides == {"RIGHT", "LEFT"}

\* Configuration written by __init__ from the git remote.
ConfigOwner == "acme"
ConfigRepo == "widgets"

\* FugitiveWorkTree()
RepositoryRoot == "/repo"

\* ------------------------------------------------------------------ Comment

\* The dataclass constructor, positional in the order of its fields:
\* body, line, path, side, start_line, start_side.
Comment(body, line, path, side, start_line, start_side) ==
    [body |-> body, line |-> line, path |-> path, side |-> side,
     start_line |-> start_line, start_side |-> start_side]

\* ---------------------------------------------------------------- JSON text

\* A JSON document is modelled by its tokens: a scalar is a pair <<tag, text>>,
\* an array a pair <<"arr", elements>>, an object the sequence of its
\* <<key, value>> members in the order json.dumps writes them.
Digits == <<"0", "1", "2", "3", "4", "5", "6", "7", "8", "9">>

RECURSIVE IntToStr(_)
IntToStr(n) ==
    IF n < 10 THEN Digits[n + 1]
    ELSE IntToStr(n \div 10) \o Digits[(n % 10) + 1]

StrToInt(s) == CHOOSE n \in 0..99 : IntToStr(n) = s

JStr(s) == <<"str", s>>
JNum(n) == <<"num", IntToStr(n)>>
JNull == <<"null", "null">>
JArr(elems) == <<"arr", elems>>

JOptNum(o) == IF o = None THEN JNull ELSE JNum(o[1])
JOptStr(o) == IF o = None THEN JNull ELSE JStr(o[1])

\* json_repr[key]
JGet(obj, key) == obj[CHOOSE i \in DOMAIN obj : obj[i][1] = key][2]

PyStr(j) == j[2]
PyInt(j) == StrToInt(j[2])
PyOptInt(j) == IF j[1] = "null" THEN None ELSE Some(StrToInt(j[2]))
PyOptStr(j) == IF j[1] = "null" THEN None ELSE Some(j[2])

\* Comment.to_json, as json.dumps writes it.
Comment_to_json(c) ==
    << <<"body", JStr(c.body)>>,
       <<"path", JStr(c.path)>>,
       <<"line", JNum(c.line)>>,
       <<"side", JStr(c.side)>>,
       <<"start_line", JOptNum(c.start_line)>>,
       <<"start_side", JOptStr(c.start_side)>> >>

\* Mutation of Comment.from_json: start_side read from the key "side".
Comment_from_json_side(j) ==
    Comment(PyStr(JGet(j, "body")),
            PyInt(JGet(j, "line")),
            PyStr(JGet(j, "path")),
            PyStr(JGet(j, "side")),
            PyOptInt(JGet(j, "start_line")),
            PyOptStr(JGet(j, "side")))

\* Comment.from_json, on a loaded document.
Comment_from_json(j) ==
    Comment(PyStr(JGet(j, "body")),
            PyInt(JGet(j, "line")),
            PyStr(JGet(j, "path")),
            PyStr(JGet(j, "side")),
            PyOptInt(JGet(j, "start_line")),
            PyOptStr(JGet(j, "start_side")))

\* ------------------------------------------------------------------- Review

\* A Review by value: its comments are Comment records, in order.
Review(owner, repo, pr_number, body, comments) ==
    [owner |-> owner, repo |-> repo, pr_number |-> pr_number,
     body |-> body, comments |-> comments]

\* Review.to_json and Review.serialize.
Review_serialize(r) ==
    << <<"owner", JStr(r.owner)>>,
       <<"repo", JStr(r.repo)>>,
       <<"pr_number", JStr(r.pr_number)>>,
       <<"body", JStr(r.body)>>,
       <<"comments", JArr([i \in DOMAIN r.comments |-> Comment_to_json(r.comments[i])])>> >>

\* Review.from_json and Review.deserialize.
Review_deserialize(j) ==
    LET cs == JGet(j, "comments")[2] IN
    Review(PyStr(JGet(j, "owner")),
           PyStr(JGet(j, "repo")),
           PyStr(JGet(j, "pr_number")),
           PyStr(JGet(j, "body")),
           [i \in DOMAIN cs |-> Comment_from_json(cs[i])])

\* Mutation of Eligible: the first line of the range excluded.
Eligible_exclusive(c, path, line) ==
    /\ c.path = path
    /\ \/ line = c.line
       \/ /\ c.start_line # None
          /\ line > c.start_line[1]
          /\ line <= c.line

\* The condition of the list comprehension of get_comment_at_position.
Eligible(c, path, line) ==
    /\ c.path = path
    /\ \/ line = c.line
       \/ /\ c.start_line # None
          /\ line >= c.start_line[1]
          /\ line <= c.line

\* Mutation of get_comment_at_position: the last eligible comment returned.
get_comment_at_position_last(comments, path, line) ==
    LET eligible_comments == SelectSeq([i \in DOMAIN comments |-> i],
                                       LAMBDA i : Eligible(comments[i], path, line))
    IN IF eligible_comments # <<>>
       THEN Some(eligible_comments[Len(eligible_comments)]) ELSE None

\* Review.get_comment_at_position on a list of comments: the index of the
\* first eligible comment, or None.
get_comment_at_position(comments, path, line) ==
    LET eligible_comments == SelectSeq([i \in DOMAIN comments |-> i],
                                       LAMBDA i : Eligible(comments[i], path, line))
    IN IF eligible_comments # <<>> THEN Some(eligible_comments[1]) ELSE None

\* new_blank_review
new_blank_review(pr_number) ==
    Review(ConfigOwner, ConfigRepo, pr_number, "", <<>>)

\* -------------------------------------------------------------------- state

VARIABLES
    review_active,        \* TestPlugin.review_active
    review,               \* TestPlugin.review: None until the first StartReview,
                          \*   then Some(Review) whose comments are object ids
    in_progress_comment,  \* TestPlugin.in_progress_comment: None or Some(object id)
    heap,                 \* the live Comment objects, by object id
    files,                \* the review files: PR number -> None or Some(JSON text)
    buffers,              \* the editor's buffers, by handle
    signs,                \* the signs placed in group PrReviewSigns
    command,              \* the command run last; for a command that reads the
                          \*   focused buffer, also that buffer and its text
    nvim_out,             \* what the last command wrote with out_write
    nvim_err,             \* what the last command wrote with err_write
    raised,               \* whether the last command ended in an unhandled exception
    http_calls,           \* the POST requests the last command issued
    scratch_limit,        \* how many scratch buffers the user keeps open at once
    ret                   \* value returned by the last pure-function application

vars == <<review_active, review, in_progress_comment, heap, files, buffers,
          signs, command, nvim_out, nvim_err, raised, http_calls, scratch_limit,
          ret>>

\* Buffer handles: a file of the work tree, the unnamed buffer the editor
\* starts with, and the scratch buffers.
BufA == 1
BufNoName == 2
FirstScratch == 3
ScratchHandles == FirstScratch..(FirstScratch + MaxScratch - 1)

\* The buffers the user issues ReviewComment, EditComment and DeleteComment in.
CommandBuffers == {BufA, BufNoName}

\* NamedTemporaryFile's name for the scratch buffer with handle h.
TempName(h) == "/tmp/tmp" \o IntToStr(h)

\* A buffer: its name, the command its BufWritePre autocmd runs ("" when it
\* has none), and the Comment object it was opened for (None for files and
\* the body buffer, and once that object is garbage). The text of a scratch
\* buffer is what the user has typed when he writes it: an input of the write.
Buffer(name, hook, target) ==
    [name |-> name, hook |-> hook, target |-> target]

\* The messages of the controller.
MsgAlreadyEditing == "A review comment is already being edited.\n"
MsgInvalidPath == "Current buffer is not a valid path in the git repository.\n"
MsgNoComment == "No comment under the cursor.\n"
MsgDeleted == "Comment deleted.\n"
MsgCannotPublish == "Cannot publish since no review is currently active.\n"
MsgNoReview == "No review is currently active.\n"

\* The Review by value: each object id replaced by the Comment it names.
ReviewValue(r, h) == [r EXCEPT !.comments = [i \in DOMAIN r.comments |-> h[r.comments[i]]]]

\* The comments of the session's Review, by value.
CommentValues == ReviewValue(review[1], heap).comments

\* The objects the plugin still references, in the order of the Review's list
\* and then the draft, each once.
RECURSIVE Distinct(_, _)
Distinct(ids, seen) ==
    IF ids = <<>> THEN <<>>
    ELSE IF Head(ids) \in seen THEN Distinct(Tail(ids), seen)
    ELSE <<Head(ids)>> \o Distinct(Tail(ids), seen \cup {Head(ids)})

Referenced(r, ipc) ==
    Distinct((IF r = None THEN <<>> ELSE r[1].comments) \o ipc, {})

\* Object ids stand for Python's object identities, which the program can
\* only compare: after each command the live objects are renumbered in the
\* order of Referenced and the others are collected.
Renumber(r, ipc, o) == CHOOSE i \in DOMAIN Referenced(r, ipc) : Referenced(r, ipc)[i] = o

Install(r, ipc, h, bufs) ==
    LET live == Referenced(r, ipc)
        liveset == {live[i] : i \in DOMAIN live}
    IN /\ review' = IF r = None THEN None
                    ELSE Some([r[1] EXCEPT !.comments =
                                  [i \in DOMAIN @ |-> Renumber(r, ipc, @[i])]])
       /\ in_progress_comment' = IF ipc = None THEN None
                                 ELSE Some(Renumber(r, ipc, ipc[1]))
       /\ heap' = [i \in DOMAIN live |-> h[live[i]]]
       /\ buffers' = [b \in DOMAIN bufs |->
                         IF bufs[b].target # None /\ bufs[b].target[1] \in liveset
                         THEN [bufs[b] EXCEPT !.target = Some(Renumber(r, ipc, @[1]))]
                         ELSE [bufs[b] EXCEPT !.target = None]]

\* ------------------------------------------------------------------- paths

\* str.replace(repository_root + '/', '') on the buffer names of the model.
StripRoot(name) ==
    CASE name = "/repo/a.py" -> "a.py"
      [] name = "/repo/b.py" -> "b.py"
      [] OTHER -> name

\* TestPlugin.current_buffer_path, b being the focused buffer. Every name of
\* the model but the empty one starts with '/'.
current_buffer_path(b) ==
    LET repository_root == RepositoryRoot
        current_buffer_name == buffers[b].name
    IN IF current_buffer_name # "" /\ repository_root # ""
       THEN Some(StripRoot(current_buffer_name))
       ELSE None

\* os.path.join(repository_absolute_path(), path) on the paths of the model:
\* an absolute second argument discards the first.
PathJoin(root, path) ==
    CASE path = "a.py" -> root \o "/a.py"
      [] path = "b.py" -> root \o "/b.py"
      [] OTHER -> path

\* ------------------------------------------------------------------- signs

\* range(start_line, end_line + 1) of update_signs_in_buffer.
SignLines(c) ==
    LET start_line == IF c.start_line = None \/ c.start_line[1] = 0
                      THEN c.line ELSE c.start_line[1]
        end_line == c.line
    IN [i \in 1..Max(0, end_line + 1 - start_line) |-> start_line + i - 1]

\* The lines signed for a list of comments in the buffer named `name`.
RECURSIVE LinesInBuffer(_, _)
LinesInBuffer(comments, name) ==
    IF comments = <<>> THEN <<>>
    ELSE (IF PathJoin(RepositoryRoot, Head(comments).path) = name
          THEN SignLines(Head(comments)) ELSE <<>>)
         \o LinesInBuffer(Tail(comments), name)

\* TestPlugin.update_signs_in_buffer for each buffer in handle order: the
\* sequence of placements <<line, handle>>.
RECURSIVE Placements(_, _, _)
Placements(comments, bufs, handles) ==
    IF handles = {} THEN <<>>
    ELSE LET b == CHOOSE x \in handles : \A y \in handles : x <= y
             ls == LinesInBuffer(comments, bufs[b].name)
         IN [i \in DOMAIN ls |-> <<ls[i], b>>]
            \o Placements(comments, bufs, handles \ {b})

\* The signs after `sign unplace *` and the placements, numbered by sign_idx.
PlacedSigns(comments, bufs) ==
    LET p == Placements(comments, bufs, DOMAIN bufs)
    IN {[id |-> i, line |-> p[i][1], buffer |-> p[i][2]] : i \in DOMAIN p}

\* Mutation of update_signs: the placed signs are not unplaced first.
update_signs_keeping(active, r, h, bufs, old) ==
    IF ~active THEN old
    ELSE old \cup PlacedSigns(ReviewValue(r[1], h).comments, bufs)

\* TestPlugin.update_signs: the signs it leaves, given the state it runs in.
update_signs(active, r, h, bufs, old) ==
    IF ~active THEN old
    ELSE PlacedSigns(ReviewValue(r[1], h).comments, bufs)

\* -------------------------------------------------------------------- files

\* Mutation of Review.save: the file opened for appending.
Review_save_appending(fs, r, h) ==
    [fs EXCEPT ![r.pr_number] =
        Some((IF @ = None THEN <<>> ELSE @[1]) \o Review_serialize(ReviewValue(r, h)))]

\* Mutation of Review.save: the comments of the file that the Review does
\* not hold are kept in front of the Review's.
Review_save_merging(fs, r, h) ==
    LET mine == ReviewValue(r, h)
        theirs == IF fs[r.pr_number] = None THEN <<>>
                  ELSE Review_deserialize(fs[r.pr_number][1]).comments
        kept == SelectSeq(theirs,
                          LAMBDA c : \A i \in DOMAIN mine.comments : mine.comments[i] # c)
    IN [fs EXCEPT ![r.pr_number] =
            Some(Review_serialize([mine EXCEPT !.comments = kept \o @]))]

\* Review.save: the files after writing the Review's serialization.
Review_save(fs, r, h) ==
    [fs EXCEPT ![r.pr_number] = Some(Review_serialize(ReviewValue(r, h)))]

\* Mutation of get_or_create_review: an existing file is not read.
get_or_create_review_blank(fs, pr_number) ==
    new_blank_review(pr_number)

\* get_or_create_review, by value.
get_or_create_review(fs, pr_number) ==
    IF fs[pr_number] # None
    THEN Review_deserialize(fs[pr_number][1])
    ELSE new_blank_review(pr_number)

\* --------------------------------------------------------------------- Init

\* A review file an earlier use of the library left behind (add_comment
\* called with an integer line): one single-line comment, its optional
\* fields absent.
EarlierFile ==
    Review_serialize(Review(ConfigOwner, ConfigRepo, "1", "",
                            <<Comment("x", 1, "a.py", "LEFT", None, None)>>))

\* The editor as the plugin finds it, and the plugin's own state after
\* TestPlugin.__init__ (which does not set self.review).
InitHost ==
    /\ review_active = FALSE
    /\ in_progress_comment = None
    /\ buffers = (BufA :> Buffer("/repo/a.py", "", None))
                 @@ (BufNoName :> Buffer("", "", None))
    /\ signs = {}
    /\ command = <<"__init__">>
    /\ nvim_out = <<>>
    /\ nvim_err = <<>>
    /\ raised = FALSE
    /\ http_calls = <<>>
    /\ ret = None

InitPlugin ==
    /\ InitHost
    /\ review = None
    /\ heap = <<>>

\* The plugin starts in a checkout with or without an earlier review file;
\* the user works in one scratch buffer at a time.
Init ==
    /\ InitPlugin
    /\ files \in {[p \in PRs |-> None], [p \in PRs |-> Some(EarlierFile)]}
    /\ scratch_limit = 1

\* The plugin starts in a checkout without review files; the user leaves up
\* to MaxScratch scratch buffers open.
InitOverlapping ==
    /\ InitPlugin
    /\ files = [p \in PRs |-> None]
    /\ scratch_limit = MaxScratch

\* ------------------------------------------------------------------ helpers

\* What a command leaves for the user and the network to see.
Observed(cmd, out, err, exc, calls) ==
    /\ command' = cmd
    /\ nvim_out' = out
    /\ nvim_err' = err
    /\ raised' = exc
    /\ http_calls' = calls
    /\ UNCHANGED <<scratch_limit, ret>>

\* A rejected command changes nothing of the plugin, the files or the editor.
NothingChanges ==
    UNCHANGED <<review_active, review, in_progress_comment, heap, files, buffers, signs>>

\* The handles a new scratch buffer can take: none while the user has
\* scratch_limit of them open.
FreeScratch ==
    IF Cardinality(DOMAIN buffers \cap ScratchHandles) < scratch_limit
    THEN ScratchHandles \ DOMAIN buffers
    ELSE {}

\* TestPlugin.new_temporary_buffer: `sp <temporary file>` opens and focuses a
\* new buffer, and the autocmd sets its BufWritePre command. `target`
\* remembers the Comment the buffer was opened for.
new_temporary_buffer(on_save_command, target) ==
    LET h == CHOOSE x \in FreeScratch : \A y \in FreeScratch : x <= y
    IN buffers @@ (h :> Buffer(TempName(h), on_save_command, target))

\* Review.post_url
post_url(r) ==
    "https://api.github.com/repos/" \o r.owner \o "/" \o r.repo
        \o "/pulls/" \o r.pr_number \o "/reviews"

\* Answers of the remote API to the POST.
Responses ==
    { [status |-> 200, repr |-> "<Response [200]>", reason |-> "OK", text |-> "{}"],
      [status |-> 422, repr |-> "<Response [422]>", reason |-> "Unprocessable Entity",
       text |-> "Validation Failed"] }

\* Review.publish: the request it posts.
Review_publish(r, h) ==
    [url |-> post_url(r), data |-> Review_serialize(ReviewValue(r, h))]

\* Mutation of Review.add_comment: a comment equal to one of the list is not
\* appended.
Review_add_comment_unique(r, comment) ==
    IF \E i \in DOMAIN r.comments : r.comments[i] = comment
    THEN r
    ELSE [r EXCEPT !.comments = Append(@, comment)]

\* Review.add_comment: list.append
Review_add_comment(r, comment) == [r EXCEPT !.comments = Append(@, comment)]

\* Review.delete_comment: removes the first entry equal (by value) to the
\* comment; the list is unchanged when there is none.
Review_delete_comment(r, h, comment) ==
    LET eq == {i \in DOMAIN r.comments : h[r.comments[i]] = h[comment]} IN
    IF eq = {} THEN r
    ELSE LET k == CHOOSE i \in eq : \A j \in eq : i <= j
         IN [r EXCEPT !.comments = SubSeq(@, 1, k - 1) \o SubSeq(@, k + 1, Len(@))]

\* Review.get_comment_at_position on the session's Review: the object found.
ReviewCommentAt(path, line) ==
    LET found == get_comment_at_position(CommentValues, path, line)
    IN IF found = None THEN None ELSE Some(review[1].comments[found[1]])

\* ----------------------------------------------------------------- commands

\* :StartReview <pr_number>
start_review(pr_number) ==
    LET loaded == get_or_create_review(files, pr_number)
        n == Len(loaded.comments)
        \* the loaded comments are new objects; of the old ones only a draft
        \* in progress stays referenced
        new_review == Some([loaded EXCEPT !.comments = [i \in 1..n |-> i]])
        new_draft == IF in_progress_comment = None THEN None ELSE Some(n + 1)
        new_heap == loaded.comments
                    \o (IF in_progress_comment = None THEN <<>>
                        ELSE <<heap[in_progress_comment[1]]>>)
        bufs == [b \in DOMAIN buffers |->
                    [buffers[b] EXCEPT !.target =
                        IF @ # None /\ @ = in_progress_comment THEN new_draft ELSE None]]
    IN /\ review_active' = TRUE
       /\ Install(new_review, new_draft, new_heap, bufs)
       /\ signs' = update_signs(TRUE, new_review, new_heap, buffers, signs)
       /\ UNCHANGED files
       /\ Observed(<<"StartReview">>, <<>>, <<>>, FALSE, <<>>)

\* Mutation of publish_review: the review file is removed once the remote
\* API has accepted the review.
publish_review_discarding(result) ==
    IF review_active
    THEN /\ review_active' = FALSE
         /\ signs' = update_signs(FALSE, review, heap, buffers, signs)
         /\ files' = IF result.status >= 400 THEN files
                     ELSE [files EXCEPT ![review[1].pr_number] = None]
         /\ UNCHANGED <<review, in_progress_comment, heap, buffers>>
         /\ Observed(<<"PublishReview">>,
                     <<result.repr \o ": " \o result.reason \o "\n">>,
                     IF result.status >= 400 THEN <<result.text \o "\n">> ELSE <<>>,
                     FALSE,
                     <<Review_publish(review[1], heap)>>)
    ELSE /\ NothingChanges
         /\ Observed(<<"PublishReview">>, <<>>, <<MsgCannotPublish>>, FALSE, <<>>)

\* Mutation of publish_review: the review stays active when the remote API
\* refuses it.
publish_review_staying(result) ==
    IF review_active
    THEN /\ review_active' = (result.status >= 400)
         /\ signs' = update_signs(review_active', review, heap, buffers, signs)
         /\ UNCHANGED <<review, in_progress_comment, heap, files, buffers>>
         /\ Observed(<<"PublishReview">>,
                     <<result.repr \o ": " \o result.reason \o "\n">>,
                     IF result.status >= 400 THEN <<result.text \o "\n">> ELSE <<>>,
                     FALSE,
                     <<Review_publish(review[1], heap)>>)
    ELSE /\ NothingChanges
         /\ Observed(<<"PublishReview">>, <<>>, <<MsgCannotPublish>>, FALSE, <<>>)

\* Mutation of publish_review: a Review that was loaded is posted whether
\* or not it is active.
publish_review_unguarded(result) ==
    IF review # None
    THEN /\ review_active' = FALSE
         /\ signs' = update_signs(FALSE, review, heap, buffers, signs)
         /\ UNCHANGED <<review, in_progress_comment, heap, files, buffers>>
         /\ Observed(<<"PublishReview">>,
                     <<result.repr \o ": " \o result.reason \o "\n">>,
                     IF result.status >= 400 THEN <<result.text \o "\n">> ELSE <<>>,
                     FALSE,
                     <<Review_publish(review[1], heap)>>)
    ELSE /\ NothingChanges
         /\ Observed(<<"PublishReview">>, <<>>, <<MsgCannotPublish>>, FALSE, <<>>)

\* :PublishReview, the remote API answering `result`
publish_review(result) ==
    IF review_active
    THEN /\ review_active' = FALSE
         /\ signs' = update_signs(FALSE, review, heap, buffers, signs)
         /\ UNCHANGED <<review, in_progress_comment, heap, files, buffers>>
         /\ Observed(<<"PublishReview">>,
                     <<result.repr \o ": " \o result.reason \o "\n">>,
                     IF result.status >= 400 THEN <<result.text \o "\n">> ELSE <<>>,
                     FALSE,
                     <<Review_publish(review[1], heap)>>)
    ELSE /\ NothingChanges
         /\ Observed(<<"PublishReview">>, <<>>, <<MsgCannotPublish>>, FALSE, <<>>)

\* :UpdateReviewSigns
UpdateReviewSigns ==
    /\ signs' = update_signs(review_active, review, heap, buffers, signs)
    /\ UNCHANGED <<review_active, review, in_progress_comment, heap, files, buffers>>
    /\ Observed(<<"UpdateReviewSigns">>, <<>>, <<>>, FALSE, <<>>)

\* Mutation of review_comment: no check for a draft in progress.
review_comment_unguarded(b, first, last) ==
    IF current_buffer_path(b) = None
    THEN /\ NothingChanges
         /\ Observed(<<"ReviewComment">>, <<>>, <<MsgInvalidPath>>, FALSE, <<>>)
    ELSE LET o == Len(heap) + 1
             draft == Comment("", last, current_buffer_path(b)[1], "RIGHT",
                              Some(first), Some("RIGHT"))
         IN /\ FreeScratch # {}
            /\ Install(review, Some(o), Append(heap, draft),
                       new_temporary_buffer("SaveComment new", Some(o)))
            /\ UNCHANGED <<review_active, files, signs>>
            /\ Observed(<<"ReviewComment">>, <<>>, <<>>, FALSE, <<>>)

\* Mutation of review_comment: the draft is appended to the Review at once.
review_comment_appending(b, first, last) ==
    IF in_progress_comment # None
    THEN /\ NothingChanges
         /\ Observed(<<"ReviewComment">>, <<>>, <<MsgAlreadyEditing>>, FALSE, <<>>)
    ELSE IF current_buffer_path(b) = None
    THEN /\ NothingChanges
         /\ Observed(<<"ReviewComment">>, <<>>, <<MsgInvalidPath>>, FALSE, <<>>)
    ELSE LET o == Len(heap) + 1
             draft == Comment("", last, current_buffer_path(b)[1], "RIGHT",
                              Some(first), Some("RIGHT"))
             review1 == IF review = None THEN None
                        ELSE Some(Review_add_comment(review[1], o))
         IN /\ FreeScratch # {}
            /\ Install(review1, Some(o), Append(heap, draft),
                       new_temporary_buffer("SaveComment new", Some(o)))
            /\ UNCHANGED <<review_active, files, signs>>
            /\ Observed(<<"ReviewComment">>, <<>>, <<>>, FALSE, <<>>)

\* :[range]ReviewComment in buffer b with range (first, last)
review_comment(b, first, last) ==
    IF in_progress_comment # None
    THEN /\ NothingChanges
         /\ Observed(<<"ReviewComment">>, <<>>, <<MsgAlreadyEditing>>, FALSE, <<>>)
    ELSE IF current_buffer_path(b) = None
    THEN /\ NothingChanges
         /\ Observed(<<"ReviewComment">>, <<>>, <<MsgInvalidPath>>, FALSE, <<>>)
    ELSE LET o == Len(heap) + 1
             draft == Comment("", last, current_buffer_path(b)[1], "RIGHT",
                              Some(first), Some("RIGHT"))
         IN /\ FreeScratch # {}
            /\ Install(review, Some(o), Append(heap, draft),
                       new_temporary_buffer("SaveComment new", Some(o)))
            /\ UNCHANGED <<review_active, files, signs>>
            /\ Observed(<<"ReviewComment">>, <<>>, <<>>, FALSE, <<>>)

\* TestPlugin.save: Review.save, then update_signs.
save(r, h) ==
    /\ files' = Review_save(files, r[1], h)
    /\ signs' = update_signs(review_active, r, h, buffers, signs)

\* :SaveComment <args> with buffer b focused, its text being `text`
save_comment(args, b, text) ==
    LET is_new_comment == args[1] = "new"
        current_buffer_contents == text
    IN
    IF in_progress_comment = None
    THEN \* None has no attribute body
         /\ NothingChanges
         /\ Observed(<<"SaveComment", args[1], b, text>>, <<>>, <<>>, TRUE, <<>>)
    ELSE LET d == in_progress_comment[1]
             heap1 == [heap EXCEPT ![d].body = current_buffer_contents]
         IN IF review = None
            THEN \* the plugin has no attribute review yet: add_comment raises
                 \* before the draft is cleared, save after it
                 /\ Install(review,
                            IF is_new_comment THEN in_progress_comment ELSE None,
                            heap1, buffers)
                 /\ UNCHANGED <<review_active, files, signs>>
                 /\ Observed(<<"SaveComment", args[1], b, text>>, <<>>, <<>>, TRUE, <<>>)
            ELSE LET review1 == IF is_new_comment
                                THEN Some(Review_add_comment(review[1], d))
                                ELSE review
                 IN /\ Len(review1[1].comments) <= MaxComments
                    /\ Install(review1, None, heap1, buffers)
                    /\ save(review1, heap1)
                    /\ UNCHANGED review_active
                    /\ Observed(<<"SaveComment", args[1], b, text>>, <<>>, <<>>, FALSE, <<>>)

\* :ReviewBody
review_body ==
    IF review_active
    THEN /\ FreeScratch # {}
         /\ buffers' = new_temporary_buffer("SaveReviewBody", None)
         /\ UNCHANGED <<review_active, review, in_progress_comment, heap, files, signs>>
         /\ Observed(<<"ReviewBody">>, <<>>, <<>>, FALSE, <<>>)
    ELSE /\ NothingChanges
         /\ Observed(<<"ReviewBody">>, <<>>, <<MsgNoReview>>, FALSE, <<>>)

\* Mutation of save_review_body: no check that a review is active.
save_review_body_unguarded(b, text) ==
    LET current_buffer_contents == text IN
    IF review # None
    THEN LET review1 == Some([review[1] EXCEPT !.body = current_buffer_contents]) IN
         /\ review' = review1
         /\ save(review1, heap)
         /\ UNCHANGED <<review_active, in_progress_comment, heap, buffers>>
         /\ Observed(<<"SaveReviewBody", b, text>>, <<>>, <<>>, FALSE, <<>>)
    ELSE /\ NothingChanges
         /\ Observed(<<"SaveReviewBody", b, text>>, <<>>, <<>>, FALSE, <<>>)

\* :SaveReviewBody with buffer b focused, its text being `text`
save_review_body(b, text) ==
    LET current_buffer_contents == text IN
    IF review_active
    THEN LET review1 == Some([review[1] EXCEPT !.body = current_buffer_contents]) IN
         /\ review' = review1
         /\ save(review1, heap)
         /\ UNCHANGED <<review_active, in_progress_comment, heap, buffers>>
         /\ Observed(<<"SaveReviewBody", b, text>>, <<>>, <<>>, FALSE, <<>>)
    ELSE /\ NothingChanges
         /\ Observed(<<"SaveReviewBody", b, text>>, <<>>, <<>>, FALSE, <<>>)

\* Mutation of edit_comment: nothing is reported when no comment is found.
edit_comment_silent(b, line) ==
    IF current_buffer_path(b) = None
    THEN /\ NothingChanges
         /\ Observed(<<"EditComment">>, <<>>, <<MsgInvalidPath>>, FALSE, <<>>)
    ELSE IF review = None
    THEN /\ NothingChanges
         /\ Observed(<<"EditComment">>, <<>>, <<>>, TRUE, <<>>)
    ELSE LET comment_to_edit == ReviewCommentAt(current_buffer_path(b)[1], line) IN
         IF comment_to_edit = None
         THEN /\ NothingChanges
              /\ Observed(<<"EditComment">>, <<>>, <<>>, FALSE, <<>>)
         ELSE /\ FreeScratch # {}
              /\ Install(review, comment_to_edit, heap,
                         new_temporary_buffer("SaveComment existing", comment_to_edit))
              /\ UNCHANGED <<review_active, files, signs>>
              /\ Observed(<<"EditComment">>, <<>>, <<>>, FALSE, <<>>)

\* :EditComment in buffer b with the cursor on `line` (range[0])
edit_comment(b, line) ==
    IF current_buffer_path(b) = None
    THEN /\ NothingChanges
         /\ Observed(<<"EditComment">>, <<>>, <<MsgInvalidPath>>, FALSE, <<>>)
    ELSE IF review = None
    THEN \* the plugin has no attribute review yet
         /\ NothingChanges
         /\ Observed(<<"EditComment">>, <<>>, <<>>, TRUE, <<>>)
    ELSE LET comment_to_edit == ReviewCommentAt(current_buffer_path(b)[1], line) IN
         IF comment_to_edit = None
         THEN /\ NothingChanges
              /\ Observed(<<"EditComment">>, <<>>, <<MsgNoComment>>, FALSE, <<>>)
         ELSE /\ FreeScratch # {}
              /\ Install(review, comment_to_edit, heap,
                         new_temporary_buffer("SaveComment existing", comment_to_edit))
              /\ UNCHANGED <<review_active, files, signs>>
              /\ Observed(<<"EditComment">>, <<>>, <<>>, FALSE, <<>>)

\* Mutation of delete_comment: nothing is reported when no comment is found.
delete_comment_silent(b, line) ==
    IF current_buffer_path(b) = None
    THEN /\ NothingChanges
         /\ Observed(<<"DeleteComment">>, <<>>, <<MsgInvalidPath>>, FALSE, <<>>)
    ELSE IF review = None
    THEN /\ NothingChanges
         /\ Observed(<<"DeleteComment">>, <<>>, <<>>, TRUE, <<>>)
    ELSE LET comment_to_delete == ReviewCommentAt(current_buffer_path(b)[1], line) IN
         IF comment_to_delete = None
         THEN /\ NothingChanges
              /\ Observed(<<"DeleteComment">>, <<>>, <<>>, FALSE, <<>>)
         ELSE LET review1 == Some(Review_delete_comment(review[1], heap, comment_to_delete[1])) IN
              /\ Install(review1, in_progress_comment, heap, buffers)
              /\ signs' = update_signs(review_active, review1, heap, buffers, signs)
              /\ UNCHANGED <<review_active, files>>
              /\ Observed(<<"DeleteComment">>, <<MsgDeleted>>, <<>>, FALSE, <<>>)

\* :DeleteComment in buffer b with the cursor on `line` (range[0])
delete_comment(b, line) ==
    IF current_buffer_path(b) = None
    THEN /\ NothingChanges
         /\ Observed(<<"DeleteComment">>, <<>>, <<MsgInvalidPath>>, FALSE, <<>>)
    ELSE IF review = None
    THEN /\ NothingChanges
         /\ Observed(<<"DeleteComment">>, <<>>, <<>>, TRUE, <<>>)
    ELSE LET comment_to_delete == ReviewCommentAt(current_buffer_path(b)[1], line) IN
         IF comment_to_delete = None
         THEN /\ NothingChanges
              /\ Observed(<<"DeleteComment">>, <<>>, <<MsgNoComment>>, FALSE, <<>>)
         ELSE LET review1 == Some(Review_delete_comment(review[1], heap, comment_to_delete[1])) IN
              /\ Install(review1, in_progress_comment, heap, buffers)
              /\ signs' = update_signs(review_active, review1, heap, buffers, signs)
              /\ UNCHANGED <<review_active, files>>
              /\ Observed(<<"DeleteComment">>, <<MsgDeleted>>, <<>>, FALSE, <<>>)

\* ------------------------------------------------------------ the editor host

\* :w in scratch buffer b, which holds `text`: its BufWritePre autocmd runs
\* the command new_temporary_buffer registered, b being the current buffer.
BufWritePre(b, text) ==
    /\ b \in DOMAIN buffers
    /\ \/ /\ buffers[b].hook = "SaveComment new"
          /\ save_comment(<<"new">>, b, text)
       \/ /\ buffers[b].hook = "SaveComment existing"
          /\ save_comment(<<"existing">>, b, text)
       \/ /\ buffers[b].hook = "SaveReviewBody"
          /\ save_review_body(b, text)

\* :bwipeout of scratch buffer b.
CloseScratch(b) ==
    /\ b \in DOMAIN buffers
    /\ buffers' = [x \in DOMAIN buffers \ {b} |-> buffers[x]]
    /\ UNCHANGED <<review_active, review, in_progress_comment, heap, files, signs>>
    /\ Observed(<<"bwipeout">>, <<>>, <<>>, FALSE, <<>>)

\* --------------------------------------------------------------------- Spec

\* A file of the work tree has MaxLine lines; the unnamed buffer has one.
NumLines(b) == IF b = BufA THEN MaxLine ELSE 1

\* The selections the user makes in buffer b: its last line alone, and all
\* of its lines.
Ranges(b) == {<<NumLines(b), NumLines(b)>>, <<1, NumLines(b)>>}

Next ==
    \/ \E pr \in PRs : start_review(pr)
    \/ \E result \in Responses : publish_review(result)
    \/ UpdateReviewSigns
    \/ \E b \in CommandBuffers : \E rg \in Ranges(b) : review_comment(b, rg[1], rg[2])
    \/ \E b \in ScratchHandles, t \in Texts : BufWritePre(b, t)
    \/ review_body
    \/ \E b \in CommandBuffers : \E l \in 1..NumLines(b) : edit_comment(b, l)
    \/ \E b \in CommandBuffers : \E l \in 1..NumLines(b) : delete_comment(b, l)
    \/ \E b \in ScratchHandles : CloseScratch(b)

Spec == Init /\ [][Next]_vars

\* The commands on comments alone, with overlapping scratch buffers.
NextOverlapping ==
    \/ \E pr \in PRs : start_review(pr)
    \/ \E b \in CommandBuffers : \E rg \in Ranges(b) : review_comment(b, rg[1], rg[2])
    \/ \E b \in ScratchHandles, t \in Texts : BufWritePre(b, t)
    \/ \E b \in CommandBuffers : \E l \in 1..NumLines(b) : edit_comment(b, l)
    \/ \E b \in CommandBuffers : \E l \in 1..NumLines(b) : delete_comment(b, l)
    \/ \E b \in ScratchHandles : CloseScratch(b)

SpecOverlapping == InitOverlapping /\ [][NextOverlapping]_vars

\* The editor with a file from outside the work tree open as well: the
\* commands on comments, issued in the file of the work tree and in that one.
BufOutside == 0

OutsideBuffers == {BufA, BufOutside}

InitOutside ==
    /\ review_active = FALSE
    /\ in_progress_comment = None
    /\ buffers = (BufA :> Buffer("/repo/a.py", "", None))
                 @@ (BufOutside :> Buffer("/etc/hosts", "", None))
    /\ signs = {}
    /\ command = <<"__init__">>
    /\ nvim_out = <<>>
    /\ nvim_err = <<>>
    /\ raised = FALSE
    /\ http_calls = <<>>
    /\ ret = None
    /\ review = None
    /\ heap = <<>>
    /\ files = [p \in PRs |-> None]
    /\ scratch_limit = 1

NextOutside ==
    \/ \E pr \in PRs : start_review(pr)
    \/ \E b \in OutsideBuffers : \E rg \in Ranges(b) : review_comment(b, rg[1], rg[2])
    \/ \E b \in ScratchHandles, t \in Texts : BufWritePre(b, t)
    \/ \E b \in OutsideBuffers : \E l \in 1..NumLines(b) : edit_comment(b, l)
    \/ \E b \in OutsideBuffers : \E l \in 1..NumLines(b) : delete_comment(b, l)
    \/ \E b \in ScratchHandles : CloseScratch(b)

SpecOutside == InitOutside /\ [][NextOutside]_vars

\* ------------------------------------------------- the library's functions

\* get_review, by value.
get_review(fs, pr_number) ==
    IF fs[pr_number] # None
    THEN Review_deserialize(fs[pr_number][1])
    ELSE new_blank_review(pr_number)

\* Review.set_body
Review_set_body(r, body) == [r EXCEPT !.body = body]

\* The files after `r`, a Review by value, is saved.
SaveValue(fs, r) ==
    Review_save(fs, [r EXCEPT !.comments = [i \in DOMAIN @ |-> i]], r.comments)

\* add_comment(pull_request, body, line, path, side, start_line, start_side),
\* the module-level function behind the command-line tool. The model stops
\* at MaxComments comments.
add_comment(pull_request, body, line, path, side, start_line, start_side) ==
    LET review0 == get_review(files, pull_request)
        review1 == Review_add_comment(review0,
                       Comment(body, line, path, side, start_line, start_side))
    IN /\ Len(review0.comments) < MaxComments
       /\ files' = SaveValue(files, review1)
       /\ UNCHANGED <<review_active, review, in_progress_comment, heap, buffers, signs>>
       /\ Observed(<<"add_comment">>, <<>>, <<>>, FALSE, <<>>)

\* add_review(pull_request, body)
add_review(pull_request, body) ==
    LET review0 == get_review(files, pull_request)
        review1 == Review_set_body(review0, body)
    IN /\ files' = SaveValue(files, review1)
       /\ UNCHANGED <<review_active, review, in_progress_comment, heap, buffers, signs>>
       /\ Observed(<<"add_review">>, <<>>, <<>>, FALSE, <<>>)

\* The library used from a checkout without review files, no editor session
\* running.
InitLibrary ==
    /\ InitPlugin
    /\ files = [p \in PRs |-> None]
    /\ scratch_limit = 0

\* The optional start of a range, as a caller passes it: absent, or any line
\* of the file with its side.
LibraryStarts == {<<None, None>>} \cup {<<Some(l), Some("RIGHT")>> : l \in 1..MaxLine}

NextLibrary ==
    \/ \E pr \in PRs, body \in Texts, line \in 1..MaxLine, st \in LibraryStarts :
          add_comment(pr, body, line, "a.py", "RIGHT", st[1], st[2])
    \/ \E pr \in PRs, body \in Texts : add_review(pr, body)

SpecLibrary == InitLibrary /\ [][NextLibrary]_vars

\* ------------------------------------ a session and the command-line tool

\* The comment another process adds with the command-line tool.
ExternalComments == {Comment("x", 1, "a.py", "LEFT", None, None)}

\* add_comment run by another process while the editor session is open: it
\* loads the review file, appends and saves. ret keeps the comment of the
\* last such call.
ExternalAddComment(pull_request, comment) ==
    LET review0 == get_review(files, pull_request)
        review1 == Review_add_comment(review0, comment)
    IN /\ Len(review0.comments) < MaxComments
       /\ files' = SaveValue(files, review1)
       /\ ret' = <<"add_comment", comment>>
       /\ command' = <<"add_comment">>
       /\ nvim_out' = <<>>
       /\ nvim_err' = <<>>
       /\ raised' = FALSE
       /\ http_calls' = <<>>
       /\ UNCHANGED <<review_active, review, in_progress_comment, heap, buffers,
                      signs, scratch_limit>>

\* One editor session drafting comments, and the command-line tool run on
\* the same review file in between its commands.
NextShared ==
    \/ \E pr \in PRs : start_review(pr)
    \/ \E rg \in Ranges(BufA) : review_comment(BufA, rg[1], rg[2])
    \/ \E b \in ScratchHandles, t \in Texts : BufWritePre(b, t)
    \/ \E b \in ScratchHandles : CloseScratch(b)
    \/ \E pr \in PRs, c \in ExternalComments : ExternalAddComment(pr, c)

SpecShared == Init /\ [][NextShared]_vars

TypeOK ==
    /\ review_active \in BOOLEAN
    /\ DOMAIN heap = 1..Len(Referenced(review, in_progress_comment))
    /\ Referenced(review, in_progress_comment) = [i \in DOMAIN heap |-> i]
    /\ review # None => Len(review[1].comments) <= MaxComments

\* ------------------------------------------------- the library, call by call

\* The Reviews the library functions are applied to: up to PureMaxLen
\* comments, single-line and ranged, on two files.
PurePaths == {"a.py", "b.py"}
PureLines == {1, 10}
PureQueryLines == {1, 5, 10}

PureStarts ==
    {<<None, None>>, <<Some(1), Some("RIGHT")>>, <<Some(10), Some("LEFT")>>}

PureComments ==
    {Comment(b, l, p, "RIGHT", st[1], st[2]) :
        b \in Texts, l \in PureLines, p \in PurePaths, st \in PureStarts}

PureCommentLists == UNION {[1..n -> PureComments] : n \in 0..PureMaxLen}

InitPure ==
    /\ InitHost
    /\ files = [p \in PRs |-> None]
    /\ scratch_limit = 0
    /\ \E cs \in PureCommentLists, body \in Texts, pr \in PRs :
          /\ heap = cs
          /\ review = Some(Review(ConfigOwner, ConfigRepo, pr, body,
                                  [i \in DOMAIN cs |-> i]))

PureFrame ==
    UNCHANGED <<review_active, review, in_progress_comment, heap, files, buffers,
                signs, command, nvim_out, nvim_err, raised, http_calls,
                scratch_limit>>

\* review.get_comment_at_position(path, line)
ApplyGetCommentAtPosition(path, line) ==
    /\ ret' = <<"get_comment_at_position", path, line,
                get_comment_at_position(CommentValues, path, line)>>
    /\ PureFrame

\* review.serialize()
ApplySerialize ==
    /\ ret' = <<"serialize", Review_serialize(ReviewValue(review[1], heap))>>
    /\ PureFrame

\* Review.deserialize(text), text being the serialization just returned
ApplyDeserialize ==
    /\ ret # None
    /\ ret[1] = "serialize"
    /\ ret' = <<"deserialize", Review_deserialize(ret[2])>>
    /\ PureFrame

\* review.save(); the call returns nothing, ret keeps what the file held
\* before it.
ApplySave ==
    /\ files' = Review_save(files, review[1], heap)
    /\ ret' = <<"save", files[review[1].pr_number]>>
    /\ UNCHANGED <<review_active, review, in_progress_comment, heap, buffers,
                   signs, command, nvim_out, nvim_err, raised, http_calls,
                   scratch_limit>>

\* get_or_create_review(pr_number).save() on an existing file: the file is
\* loaded and the loaded Review saved.
ApplyLoadSave ==
    LET pr_number == review[1].pr_number
        loaded == get_or_create_review(files, pr_number)
    IN /\ files[pr_number] # None
       /\ files' = Review_save(files,
                               [loaded EXCEPT !.comments = [i \in DOMAIN @ |-> i]],
                               loaded.comments)
       /\ ret' = <<"load_save", files[pr_number]>>
       /\ UNCHANGED <<review_active, review, in_progress_comment, heap, buffers,
                      signs, command, nvim_out, nvim_err, raised, http_calls,
                      scratch_limit>>

NextPure ==
    \/ \E path \in PurePaths, line \in PureQueryLines :
          ApplyGetCommentAtPosition(path, line)
    \/ ApplySerialize
    \/ ApplyDeserialize
    \/ ApplySave
    \/ ApplyLoadSave

SpecPure == InitPure /\ [][NextPure]_vars

\* =================================================================== claims

\* C1: ReviewComment issued while a draft is in progress is rejected with the
\* error message and changes nothing: the draft keeps its path, line,
\* start_line and body, no scratch buffer or save hook is added, and the
\* Review and its file are as before.
C1_RejectedWhileDrafting ==
    [][(in_progress_comment # None /\ command' = <<"ReviewComment">>) =>
          /\ nvim_err' = <<MsgAlreadyEditing>>
          /\ nvim_out' = <<>>
          /\ ~raised'
          /\ in_progress_comment' = in_progress_comment
          /\ heap' = heap
          /\ buffers' = buffers
          /\ review' = review
          /\ files' = files
          /\ review_active' = review_active
          /\ signs' = signs]_vars

\* C1 witness: ReviewComment was just rejected, the draft of an earlier
\* ReviewComment being in progress in its scratch buffer.
C1_Witness ==
    /\ command = <<"ReviewComment">>
    /\ nvim_err = <<MsgAlreadyEditing>>
    /\ in_progress_comment # None
    /\ \E b \in DOMAIN buffers : /\ buffers[b].hook = "SaveComment new"
                                /\ buffers[b].target = in_progress_comment

\* C2: once a draft is in progress, neither ReviewComment nor EditComment
\* starts a second draft or replaces the first one, and neither opens another
\* scratch buffer with a comment save hook.
C2_AtMostOneDraft ==
    [][(in_progress_comment # None /\ command'[1] \in {"ReviewComment", "EditComment"}) =>
          /\ in_progress_comment' = in_progress_comment
          /\ heap' = heap
          /\ buffers' = buffers]_vars

\* C7: PublishReview, whatever the remote API answers, leaves the in-memory
\* Review (owner, repo, pr_number, body, comments) and the review files as
\* they were before the command.
C7_PublishKeepsLocalState ==
    [][command' = <<"PublishReview">> =>
          /\ files' = files
          /\ (review = None) = (review' = None)
          /\ review # None =>
                ReviewValue(review'[1], heap') = ReviewValue(review[1], heap)]_vars

\* C7 witness: a review with a comment, saved to its file, has just been
\* published and the remote API has refused it.
C7_Witness ==
    /\ command = <<"PublishReview">>
    /\ Len(http_calls) = 1
    /\ nvim_err = <<"Validation Failed\n">>
    /\ review # None
    /\ Len(review[1].comments) > 0
    /\ files[review[1].pr_number] = Some(Review_serialize(ReviewValue(review[1], heap)))

\* C8: PublishReview issued while a review is active posts the Review exactly
\* once and, whatever the answer, leaves review_active false with the raw
\* result written to the user (its text too when it is an error).
C8_PublishOnce ==
    [][(review_active /\ command' = <<"PublishReview">>) =>
          /\ http_calls' = <<Review_publish(review[1], heap)>>
          /\ ~review_active'
          /\ ~raised'
          /\ \E result \in Responses :
                /\ nvim_out' = <<result.repr \o ": " \o result.reason \o "\n">>
                /\ nvim_err' = IF result.status >= 400
                               THEN <<result.text \o "\n">> ELSE <<>>]_vars

\* C8 witness: an active review has just been published and accepted.
C8_Witness ==
    /\ command = <<"PublishReview">>
    /\ Len(http_calls) = 1
    /\ ~review_active
    /\ nvim_out = <<"<Response [200]>: OK\n">>
    /\ nvim_err = <<>>

\* The positions (buffer, line) the comments of the Review cover in the open
\* buffers: for each comment whose path under the repository root is the
\* name of a buffer, the lines start_line..line, or line when start_line is
\* unset.
CoveredPositions ==
    UNION {UNION {IF PathJoin(RepositoryRoot, CommentValues[i].path) = buffers[b].name
                  THEN {<<b, l>> : l \in (IF CommentValues[i].start_line = None
                                         THEN CommentValues[i].line
                                         ELSE CommentValues[i].start_line[1])
                                        .. CommentValues[i].line}
                  ELSE {}
                  : i \in DOMAIN CommentValues}
           : b \in DOMAIN buffers}

MarkedPositions == {<<s.buffer, s.line>> : s \in signs}

\* C4: when the save hook of a new draft fires (SaveComment new) while a
\* comment is in progress in an active review, the command completes with the
\* draft's body equal to the buffer text, the Review's comments equal to the
\* previous comments followed by exactly that comment, the Review written to
\* its file, the markers recomputed, and in_progress_comment None.
C4_SaveNewDraft ==
    [][(/\ in_progress_comment # None
        /\ review_active
        /\ Len(command') = 4
        /\ command'[1] = "SaveComment"
        /\ command'[2] = "new") =>
          LET draft == heap[in_progress_comment[1]]
              text == command'[4]
          IN /\ ~raised'
             /\ review_active'
             /\ in_progress_comment' = None
             /\ ReviewValue(review'[1], heap').comments
                   = Append(CommentValues, [draft EXCEPT !.body = text])
             /\ files'[review'[1].pr_number]
                   = Some(Review_serialize(ReviewValue(review'[1], heap')))
             /\ MarkedPositions' = CoveredPositions']_vars

\* C5: the save of a scratch buffer that EditComment opened for a comment c of
\* the Review leaves the number and order of the comments and every comment
\* other than c unchanged, and c in place with only its body replaced by the
\* buffer text.
C5_EditSaveInPlace ==
    [][\A b \in ScratchHandles :
          (/\ b \in DOMAIN buffers
           /\ buffers[b].hook = "SaveComment existing"
           /\ buffers[b].target # None
           /\ \E i \in DOMAIN review[1].comments : review[1].comments[i] = buffers[b].target[1]
           /\ Len(command') = 4
           /\ command'[1] = "SaveComment"
           /\ command'[3] = b) =>
             LET c == buffers[b].target[1]
                 text == command'[4]
             IN /\ review' = review
                /\ \A i \in DOMAIN review[1].comments :
                      LET o == review[1].comments[i] IN
                      heap'[o] = IF o = c THEN [heap[c] EXCEPT !.body = text]
                                 ELSE heap[o]]_vars

\* C6: after each completed SaveComment, SaveReviewBody or DeleteComment that
\* changes the in-memory Review, the review file of its PR number
\* deserializes to a Review equal to the in-memory Review.
C6_PersistedAfterMutation ==
    [][(/\ command'[1] \in {"SaveComment", "SaveReviewBody", "DeleteComment"}
        /\ ~raised'
        /\ review # None
        /\ review' # None
        /\ ReviewValue(review'[1], heap') # ReviewValue(review[1], heap)) =>
          /\ files'[review'[1].pr_number] # None
          /\ Review_deserialize(files'[review'[1].pr_number][1])
                = ReviewValue(review'[1], heap')]_vars

\* C9: immediately after a command that changes the comments of the active
\* Review (StartReview, SaveComment of a new comment, DeleteComment), the
\* positions carrying a marker are exactly the positions the comments cover
\* in the open buffers.
C9_AfterChange ==
    \/ command[1] = "StartReview"
    \/ command[1] = "SaveComment" /\ command[2] = "new" /\ ~raised
    \/ command[1] = "DeleteComment" /\ nvim_out = <<MsgDeleted>>

C9_MarkersMirrorComments ==
    (C9_AfterChange /\ review_active) => MarkedPositions = CoveredPositions

\* C9 witness: DeleteComment has just removed one of two comments of an active
\* review; the comment left spans two lines of an open buffer.
C9_Witness ==
    /\ command = <<"DeleteComment">>
    /\ nvim_out = <<MsgDeleted>>
    /\ review_active
    /\ Len(CommentValues) = 1
    /\ Cardinality(MarkedPositions) = 2

\* C3: for every Review, path and line, get_comment_at_position returns the
\* comment with the lowest index in the list whose path equals the given path
\* and whose line is the given line or whose range start_line..line (start_line
\* set) contains it; it returns None exactly when no comment satisfies that;
\* and the call leaves the Review as it was.
C3_Contains(c, path, line) ==
    /\ c.path = path
    /\ \/ line = c.line
       \/ \E s \in PureLines : c.start_line = Some(s) /\ s <= line /\ line <= c.line

C3_Matches(path, line) ==
    {i \in DOMAIN CommentValues : C3_Contains(CommentValues[i], path, line)}

C3_Result ==
    (ret # None /\ ret[1] = "get_comment_at_position") =>
        LET matches == C3_Matches(ret[2], ret[3]) IN
        /\ ret[4] = None <=> matches = {}
        /\ ret[4] # None => /\ ret[4][1] \in matches
                            /\ \A i \in matches : ret[4][1] <= i

C3_FirstMatch ==
    /\ []C3_Result
    /\ [][ret'[1] = "get_comment_at_position" => UNCHANGED <<review, heap>>]_vars

\* C3 witness: a lookup that passed over a non-matching first comment and
\* returned the second, which contains the line strictly inside its range.
C3_Witness ==
    /\ ret # None
    /\ ret[1] = "get_comment_at_position"
    /\ ret[4] = Some(2)
    /\ CommentValues[2].start_line # None
    /\ ret[3] # CommentValues[2].line

\* C10: Review.deserialize(Review.serialize(r)) equals r field by field, for
\* Reviews with 0, 1 or more comments, single-line (start_line and start_side
\* None, written as explicit nulls) and ranged, the order of comments kept.
C10_RoundTrip ==
    (ret # None /\ ret[1] = "deserialize") => ret[2] = ReviewValue(review[1], heap)

\* C10 witness: the round trip of a Review with a single-line comment followed
\* by a ranged one.
C10_Witness ==
    /\ ret # None
    /\ ret[1] = "deserialize"
    /\ Len(CommentValues) = 2
    /\ CommentValues[1].start_line = None
    /\ CommentValues[1].start_side = None
    /\ CommentValues[2].start_line # None
    /\ ret[2].comments = CommentValues

\* C11: Review.save called again with no mutation in between leaves the
\* review file with the content the first save wrote, and so does a save of
\* the Review loaded from the saved file.
C11_SaveIdempotent ==
    (ret # None /\ ret[1] \in {"save", "load_save"} /\ ret[2] # None) =>
        files[review[1].pr_number] = ret[2]

\* C11 witness: a Review with a single-line and a ranged comment has been
\* saved, loaded from its file and saved again.
C11_Witness ==
    /\ ret # None
    /\ ret[1] = "load_save"
    /\ ret[2] = Some(Review_serialize(ReviewValue(review[1], heap)))
    /\ Len(CommentValues) = 2
    /\ CommentValues[1].start_line = None
    /\ CommentValues[2].start_line # None

\* C12: StartReview for a PR number whose review file exists leaves the
\* session with the Review that file holds (the Review last saved to it: body
\* and every comment, in order); with no file it leaves a blank Review, owner
\* and repo from the configuration, body "" and no comments. In both cases
\* the session is active afterwards and the markers are those of the Review's
\* comments.
C12_GetOrCreate ==
    [][\A pr_number \in PRs :
        (command' = <<"StartReview">> /\ review' # None
            /\ review'[1].pr_number = pr_number) =>
          /\ review_active'
          /\ MarkedPositions' = CoveredPositions'
          /\ IF files[pr_number] # None
             THEN /\ ReviewValue(review'[1], heap')
                        = Review_deserialize(files[pr_number][1])
                  /\ (review # None
                        /\ files[pr_number]
                            = Some(Review_serialize(ReviewValue(review[1], heap)))) =>
                        ReviewValue(review'[1], heap') = ReviewValue(review[1], heap)
             ELSE ReviewValue(review'[1], heap')
                    = [owner |-> ConfigOwner, repo |-> ConfigRepo,
                       pr_number |-> pr_number, body |-> "", comments |-> <<>>]]_vars
    /\ [](command = <<"StartReview">> => review # None)

\* C12 witness: StartReview has loaded a review file holding a body and two
\* comments, and placed their markers.
C12_Witness ==
    /\ command = <<"StartReview">>
    /\ review_active
    /\ review # None
    /\ review[1].body = "x"
    /\ Len(CommentValues) = 2
    /\ files[review[1].pr_number] = Some(Review_serialize(ReviewValue(review[1], heap)))
    /\ MarkedPositions # {}

\* C13: DeleteComment with the cursor on a line that at least one comment of
\* the buffer's file covers removes exactly one comment from the Review: the
\* entry of lowest index equal to the first comment covering the line. The
\* other comments stay in their order and the body stays as it was.
C13_Covering(path, line) ==
    {i \in DOMAIN CommentValues :
        /\ CommentValues[i].path = path
        /\ \/ CommentValues[i].line = line
           \/ \E first \in 1..line :
                /\ CommentValues[i].start_line = Some(first)
                /\ line <= CommentValues[i].line}

C13_Removed(path, line) ==
    LET found == CHOOSE i \in C13_Covering(path, line) :
                    \A j \in C13_Covering(path, line) : i <= j
        equal == {i \in DOMAIN CommentValues : CommentValues[i] = CommentValues[found]}
    IN CHOOSE i \in equal : \A j \in equal : i <= j

C13_DeleteRemovesFirstMatch ==
    [][\A b \in CommandBuffers : \A line \in 1..NumLines(b) :
        (/\ delete_comment(b, line)
         /\ review # None
         /\ current_buffer_path(b) # None
         /\ C13_Covering(current_buffer_path(b)[1], line) # {}) =>
           LET k == C13_Removed(current_buffer_path(b)[1], line) IN
           /\ nvim_out' = <<MsgDeleted>>
           /\ CommentValues' = [i \in 1..(Len(CommentValues) - 1) |->
                                   IF i < k THEN CommentValues[i]
                                   ELSE CommentValues[i + 1]]
           /\ review'[1].body = review[1].body]_vars

\* C13 witness: DeleteComment has removed one of two comments of a Review
\* whose body is set; the single-line comment on line 2 is the one left.
C13_Witness ==
    /\ command = <<"DeleteComment">>
    /\ nvim_out = <<MsgDeleted>>
    /\ review[1].body = "x"
    /\ Len(CommentValues) = 1
    /\ CommentValues[1].start_line = Some(2)
    /\ CommentValues[1].line = 2

C15_Ordered(comments) ==
    \A i \in DOMAIN comments :
        comments[i].start_line # None => comments[i].start_line[1] <= comments[i].line

C15_StartLineNotAfterLine ==
    /\ review # None => C15_Ordered(CommentValues)
    /\ \A pr_number \in PRs :
          files[pr_number] # None =>
            C15_Ordered(Review_deserialize(files[pr_number][1]).comments)

\* C16: ReviewComment, EditComment and DeleteComment in a buffer whose name
\* is empty or is not a file of the work tree end with an error message,
\* create no draft and leave the Review as it was; a ReviewComment that
\* succeeds stores a path which, joined to the root of the work tree, is the
\* buffer's name.
C16_InWorkTree(name) == name \in {RepositoryRoot \o "/a.py", RepositoryRoot \o "/b.py"}

C16_CommandIn(b) ==
    \/ \E rg \in Ranges(b) : review_comment(b, rg[1], rg[2])
    \/ \E l \in 1..NumLines(b) : edit_comment(b, l)
    \/ \E l \in 1..NumLines(b) : delete_comment(b, l)

C16_ValidPathRequired ==
    [][\A b \in DOMAIN buffers \ ScratchHandles :
        /\ (C16_CommandIn(b) /\ ~C16_InWorkTree(buffers[b].name)) =>
              /\ nvim_err' # <<>>
              /\ in_progress_comment' = in_progress_comment
              /\ heap' = heap
              /\ review' = review
        /\ ((\E rg \in Ranges(b) : review_comment(b, rg[1], rg[2]))
              /\ in_progress_comment = None /\ in_progress_comment' # None) =>
              PathJoin(RepositoryRoot, heap'[in_progress_comment'[1]].path)
                = buffers[b].name]_vars

\* C17: in a session whose Review has been loaded, every write of a comment
\* buffer completes and leaves a review file holding a comment whose body is
\* the text written.
C17_EveryWriteSaves ==
    (command[1] = "SaveComment" /\ review # None) =>
        /\ ~raised
        /\ files[review[1].pr_number] # None
        /\ \E c \in {Review_deserialize(files[review[1].pr_number][1]).comments[i] :
                        i \in DOMAIN Review_deserialize(files[review[1].pr_number][1]).comments} :
              c.body = command[4]

\* C18: no command ends in an exception that the plugin does not handle.
C18_NoUnhandledFailure == ~raised

\* C19: the body of the request PublishReview posts is a JSON object with
\* exactly the keys body and comments, its comments being the Review's
\* comments in order, each with exactly the keys body, path, line, side,
\* start_line and start_side; the request goes to the URL built from the
\* Review's owner, repo and pr_number.
C19_Keys(obj) == {obj[k][1] : k \in DOMAIN obj}

C19_RequestBody ==
    \A n \in DOMAIN http_calls :
        LET data == http_calls[n].data
            sent == JGet(data, "comments")[2]
        IN /\ C19_Keys(data) = {"body", "comments"}
           /\ Len(data) = 2
           /\ JGet(data, "body") = <<"str", review[1].body>>
           /\ Len(sent) = Len(CommentValues)
           /\ \A i \in DOMAIN sent :
                /\ C19_Keys(sent[i])
                     = {"body", "path", "line", "side", "start_line", "start_side"}
                /\ Len(sent[i]) = 6
                /\ JGet(sent[i], "body") = <<"str", CommentValues[i].body>>
                /\ JGet(sent[i], "path") = <<"str", CommentValues[i].path>>
           /\ http_calls[n].url
                = "https://api.github.com/repos/" \o review[1].owner \o "/"
                    \o review[1].repo \o "/pulls/" \o review[1].pr_number \o "/reviews"

\* C20: a ReviewComment that succeeds on the selection first..last leaves the
\* Review, the review files and the markers as they were; it creates the
\* draft with body "", side RIGHT, line = last, start_line = first and the
\* path of the buffer's file relative to the work tree, and opens exactly one
\* scratch buffer, whose write hook saves a new comment. A comment enters the
\* Review only at the write of such a buffer.
C20_DraftOnly ==
    [][/\ \A b \in CommandBuffers : \A rg \in Ranges(b) :
            (review_comment(b, rg[1], rg[2]) /\ nvim_err' = <<>>) =>
              /\ review' = review
              /\ files' = files
              /\ signs' = signs
              /\ review_active' = review_active
              /\ Len(heap') = Len(heap) + 1
              /\ \A i \in DOMAIN heap : heap'[i] = heap[i]
              /\ in_progress_comment' = Some(Len(heap'))
              /\ LET draft == heap'[Len(heap')] IN
                   /\ draft.body = ""
                   /\ draft.side = "RIGHT"
                   /\ draft.line = rg[2]
                   /\ draft.start_line = Some(rg[1])
                   /\ buffers[b].name = RepositoryRoot \o "/" \o draft.path
              /\ \E h \in ScratchHandles :
                   /\ DOMAIN buffers' = DOMAIN buffers \cup {h}
                   /\ h \notin DOMAIN buffers
                   /\ buffers'[h].hook = "SaveComment new"
                   /\ \A x \in DOMAIN buffers :
                        buffers'[x].name = buffers[x].name
                        /\ buffers'[x].hook = buffers[x].hook
       /\ (/\ review # None
           /\ review' # None
           /\ command'[1] # "StartReview"
           /\ Len(review'[1].comments) > Len(review[1].comments)) =>
              /\ command'[1] = "SaveComment"
              /\ buffers[command'[3]].hook = "SaveComment new"]_vars

\* C20 witness: ReviewComment on lines 1..2 has just created its draft and
\* opened its scratch buffer, the Review holding a saved comment already.
C20_Witness ==
    /\ command = <<"ReviewComment">>
    /\ nvim_err = <<>>
    /\ review # None
    /\ Len(CommentValues) = 1
    /\ files[review[1].pr_number] = Some(Review_serialize(ReviewValue(review[1], heap)))
    /\ in_progress_comment = Some(2)
    /\ heap[2] = Comment("", 2, "a.py", "RIGHT", Some(1), Some("RIGHT"))
    /\ \E h \in DOMAIN buffers : buffers[h].hook = "SaveComment new"

\* C21: EditComment with the cursor on a line of a file of the work tree
\* that no comment of the Review covers reports "No comment under the
\* cursor." as an error; the session stays as active as it was, no draft is
\* created, no scratch buffer is opened, and the Review, the review files and
\* the markers are unchanged.
C21_EditNothingFound ==
    [][\A b \in CommandBuffers : \A line \in 1..NumLines(b) :
        (/\ edit_comment(b, line)
         /\ review # None
         /\ current_buffer_path(b) # None
         /\ C13_Covering(current_buffer_path(b)[1], line) = {}) =>
           /\ nvim_err' = <<MsgNoComment>>
           /\ ~raised'
           /\ review_active' = review_active
           /\ in_progress_comment' = in_progress_comment
           /\ DOMAIN buffers' = DOMAIN buffers
           /\ ReviewValue(review'[1], heap') = ReviewValue(review[1], heap)
           /\ files' = files
           /\ signs' = signs]_vars

\* C21 witness: in an active session with no draft, EditComment found no
\* comment under the cursor while the Review holds a saved, marked comment on
\* another line.
C21_Witness ==
    /\ command = <<"EditComment">>
    /\ nvim_err = <<MsgNoComment>>
    /\ review_active
    /\ in_progress_comment = None
    /\ Len(CommentValues) = 1
    /\ CommentValues[1].start_line = Some(2)
    /\ files[review[1].pr_number] # None
    /\ signs # {}

\* C22: the draft a successful ReviewComment has just created has start_line
\* and start_side unset when the selection was a single line, and start_line
\* below line otherwise.
C22_StartOnlyForSpans ==
    (command = <<"ReviewComment">> /\ nvim_err = <<>> /\ in_progress_comment # None) =>
        LET draft == heap[in_progress_comment[1]] IN
        \/ draft.start_line = None /\ draft.start_side = None
        \/ draft.start_line # None /\ draft.start_line[1] < draft.line

\* C23: add_comment appends and does nothing else. A call of the library's
\* add_comment leaves in the review file the Review that was there (a blank
\* one when there was no file) with the comment added at the end, equal
\* comments included; the write of the buffer of a new draft leaves the
\* session's Review with its previous comments followed by the draft. Body,
\* owner, repo and pr_number are unchanged in both cases.
C23_Before(pr_number) ==
    IF files[pr_number] # None
    THEN Review_deserialize(files[pr_number][1])
    ELSE [owner |-> ConfigOwner, repo |-> ConfigRepo, pr_number |-> pr_number,
          body |-> "", comments |-> <<>>]

C23_AppendsAtEnd ==
    [][/\ \A pr_number \in PRs : \A c \in ExternalComments :
            ExternalAddComment(pr_number, c) =>
              /\ files'[pr_number] # None
              /\ Review_deserialize(files'[pr_number][1])
                    = [C23_Before(pr_number) EXCEPT !.comments = @ \o <<c>>]
       /\ (/\ command'[1] = "SaveComment"
           /\ command'[2] = "new"
           /\ ~raised'
           /\ review # None
           /\ in_progress_comment # None
           /\ \A i \in DOMAIN review[1].comments :
                review[1].comments[i] # in_progress_comment[1]) =>
              ReviewValue(review'[1], heap')
                = [ReviewValue(review[1], heap) EXCEPT !.comments =
                      @ \o <<[heap[in_progress_comment[1]] EXCEPT !.body = command'[4]]>>]
      ]_vars

\* C23 witness: the command-line tool has added a comment equal to the one
\* the review file held already, and the file holds both.
C23_Witness ==
    /\ command = <<"add_comment">>
    /\ \E pr_number \in PRs :
          /\ files[pr_number] # None
          /\ LET saved == Review_deserialize(files[pr_number][1]).comments IN
             /\ Len(saved) = 2
             /\ saved[1] = saved[2]
             /\ ret = <<"add_comment", saved[2]>>

\* C24: SaveReviewBody in an active session replaces the Review's body by
\* the text of the buffer and leaves the comments, owner, repo and pr_number
\* as they were; while no review is active it changes neither the Review nor
\* any review file.
C24_BodyReplaced ==
    [][command'[1] = "SaveReviewBody" =>
        IF review_active
        THEN /\ ReviewValue(review'[1], heap')
                  = [owner |-> review[1].owner, repo |-> review[1].repo,
                     pr_number |-> review[1].pr_number, body |-> command'[3],
                     comments |-> CommentValues]
             /\ ~raised'
        ELSE /\ review' = review
             /\ heap' = heap
             /\ files' = files]_vars

\* C24 witness: SaveReviewBody has written the text "x" as the body of an
\* active Review that holds a comment, and the Review is saved.
C24_Witness ==
    /\ command[1] = "SaveReviewBody"
    /\ command[3] = "x"
    /\ review_active
    /\ review[1].body = "x"
    /\ Len(CommentValues) = 1
    /\ \E b \in DOMAIN buffers : buffers[b].hook = "SaveReviewBody"
    /\ http_calls = <<>>
    /\ files[review[1].pr_number] = Some(Review_serialize(ReviewValue(review[1], heap)))

\* C25: saves are last-writer-wins. A write of a comment buffer leaves in
\* the review file exactly the session's Review, whatever another process
\* has written to the file since the session loaded it.
C25_LastWriterWins ==
    [][(command'[1] = "SaveComment" /\ ~raised' /\ review' # None) =>
          files'[review'[1].pr_number]
            = Some(Review_serialize(ReviewValue(review'[1], heap')))]_vars

\* C25 witness: the command-line tool added a comment to the review file
\* after the session had loaded it, the session then saved a comment of its
\* own, and the file holds the session's comment and not the tool's.
C25_Witness ==
    /\ ret # None
    /\ ret[1] = "add_comment"
    /\ command[1] = "SaveComment"
    /\ ~raised
    /\ review # None
    /\ files[review[1].pr_number] # None
    /\ LET saved == Review_deserialize(files[review[1].pr_number][1]).comments IN
       /\ Len(saved) = 1
       /\ saved[1].side = "RIGHT"
       /\ \A i \in DOMAIN saved : saved[i] # ret[2]

\* C26: PublishReview issued while no review is active posts nothing, writes
\* "Cannot publish since no review is currently active." as an error, and
\* leaves review_active, the Review, the draft, the review files, the buffers
\* and the markers as they were.
C26_PublishWhileIdle ==
    [][(~review_active /\ command' = <<"PublishReview">>) =>
          /\ http_calls' = <<>>
          /\ nvim_err' = <<MsgCannotPublish>>
          /\ nvim_out' = <<>>
          /\ ~raised'
          /\ UNCHANGED <<review_active, review, in_progress_comment, heap, files,
                         buffers, signs>>]_vars

\* C26 witness: PublishReview has been refused in a session whose Review was
\* published before, a draft being in progress and the review file written.
C26_Witness ==
    /\ command = <<"PublishReview">>
    /\ nvim_err = <<MsgCannotPublish>>
    /\ ~review_active
    /\ review # None
    /\ in_progress_comment # None
    /\ files[review[1].pr_number] # None

\* C27: while no review is active, none of the commands ReviewComment,
\* SaveComment, EditComment, ReviewBody, SaveReviewBody, PublishReview and
\* UpdateReviewSigns changes the in-memory Review or writes a review file.
C27_IdleChangesNothing ==
    [][(/\ ~review_active
        /\ command'[1] \in {"ReviewComment", "SaveComment", "EditComment", "ReviewBody",
                            "SaveReviewBody", "PublishReview", "UpdateReviewSigns"}) =>
          /\ files' = files
          /\ review = None => review' = None
          /\ review # None =>
                /\ review' # None
                /\ ReviewValue(review'[1], heap') = ReviewValue(review[1], heap)]_vars

\* C28: a write of a comment buffer sets the body of the comment that buffer
\* was opened for, and of no other comment.
C28_BodyFromOwnBuffer ==
    [][(/\ command'[1] = "SaveComment"
        /\ ~raised'
        /\ in_progress_comment # None) =>
          buffers[command'[3]].target = in_progress_comment]_vars

====
